---- MODULE Spec2Model ----
(***************************************************************************)
(* A model of goplane's netlink dataplane agent:                           *)
(*   - the supervisor loop of main.go (configuration snapshots, the        *)
(*     add/delete requests it sends to the dataplane),                     *)
(*   - config.UpdateConfig / inSlice,                                      *)
(*   - netlink.Dataplane.Serve (startup, the select loop, vnMap, the tomb),*)
(*   - netlink.Dataplane.monitorBest / modRib / getNexthop (the global RIB *)
(*     synchronizer).                                                      *)
(***************************************************************************)
EXTENDS Integers, Sequences, FiniteSets, TLC

(***************************************************************************)
(* Bounds of the model.                                                    *)
(***************************************************************************)
\* configuration snapshots the supervisor receives in one run
MaxSnapshots == 2
\* entries of one virtual-network-list
MaxVnList == 2
\* paths the watch stream delivers in one run, over all its events (an
\* event without paths counts as one)
MaxDelivered == 3

\* paths delivered by the watch where Serve also advertises (SpecEv)
MaxEvents == 2

\* paths delivered by the watch in the runs that start with the process
\* (SpecStart)
MaxStartEvents == 1

(***************************************************************************)
(* Program constants.                                                      *)
(***************************************************************************)
\* make(chan []*table.Path, 16)
ModRibChCap == 16
\* make(chan *table.Path, 16)
AdvPathChCap == 16
\* netlink.FLAG_ONLINK
FLAG_ONLINK == 4

(***************************************************************************)
(* Configuration records (config.VirtualNetwork, config.Dataplane).        *)
(* VNI stands for every field of a VirtualNetwork other than RD.           *)
(***************************************************************************)
VirtualNetwork ==
    { [RD |-> "65000:10", VNI |-> 10],
      [RD |-> "65000:10", VNI |-> 11],
      [RD |-> "65000:20", VNI |-> 20] }

RECURSIVE SeqsUpTo(_, _)
SeqsUpTo(S, n) ==
    IF n = 0 THEN { <<>> }
    ELSE LET shorter == SeqsUpTo(S, n - 1)
         IN  shorter \cup { Append(s, x) : s \in shorter, x \in S }

DataplaneConfig ==
    [ Type : {"netlink", "other"},
      VirtualNetworkList : SeqsUpTo(VirtualNetwork, MaxVnList) ]

RDsOf(list) == { list[i].RD : i \in 1..Len(list) }

(***************************************************************************)
(* config.UpdateConfig and inSlice.  A *Dataplane is a sequence of length  *)
(* 0 (nil) or 1.                                                           *)
(***************************************************************************)
\* variant: the scan starts at the second entry
inSliceFromSecond(one, list) ==
    IF \E i \in 2..Len(list) : list[i].RD = one.RD
    THEN (CHOOSE i \in 2..Len(list) :
             /\ list[i].RD = one.RD
             /\ \A j \in 2..(i - 1) : list[j].RD # one.RD) - 1
    ELSE -1

inSlice(one, list) ==
    IF \E i \in 1..Len(list) : list[i].RD = one.RD
    THEN (CHOOSE i \in 1..Len(list) :
             /\ list[i].RD = one.RD
             /\ \A j \in 1..(i - 1) : list[j].RD # one.RD) - 1
    ELSE -1

UpdateConfig(curC, newC) ==
    IF curC = <<>>
    THEN << newC.VirtualNetworkList, <<>> >>
    ELSE << SelectSeq(newC.VirtualNetworkList,
                      LAMBDA n : inSlice(n, curC[1].VirtualNetworkList) < 0),
            SelectSeq(curC[1].VirtualNetworkList,
                      LAMBDA n : inSlice(n, newC.VirtualNetworkList) < 0) >>

(***************************************************************************)
(* bgpconfig.GlobalConfig: the router id and the AS of a configuration     *)
(* file; each of them may be missing ("" and 0).                           *)
(***************************************************************************)
\* d.config.BGP.Global.Config.RouterId of a configuration that sets it
RouterIdCfg == "10.0.0.1"

\* d.config.BGP.Global.Config.As of a configuration that sets it
LocalAsCfg == 65000

GlobalConfig == [ RouterId : {"", RouterIdCfg}, As : {0, LocalAsCfg} ]

\* the zero value of bgpconfig.GlobalConfig
NoGlobal == [RouterId |-> "", As |-> 0]

\* a configuration with both router id and AS
ReadyGlobal == [RouterId |-> RouterIdCfg, As |-> LocalAsCfg]

VARIABLES
    \* ---- supervisor (main.go) ----
    nsnap,        \* snapshots received so far
    d,            \* var d *config.Dataplane: <<>> or <<record>>
    dataplane,    \* var dataplane Dataplaner: "nil" or "netlink"
    pending,      \* the add/delete calls of the two for-loops still to make
    crashed,      \* a goroutine panicked: the process is gone
    \* ---- dataplane (netlink.Dataplane) ----
    dpPc,         \* Serve: "none", "startup" (the retry loop), "advsend",
                  \* "sleep", "loop", "addpath", "returned"
    bgpGlobal,    \* d.config.BGP.Global.Config: its RouterId and As
    vnMap,        \* map[string]*VirtualNetwork: RD -> worker
    detached,     \* running detached that vnMap does not point at
    tombDying,    \* d.t is dying
    tombDead,     \* d.t is dead (all its goroutines have returned)
    lastSame,     \* history: the last snapshot equalled the one before it
    fatal,        \* history: the process was ended by log.Fatal
    \* ---- dataplane startup and the advertisement queue ----
    routerId,     \* d.routerId
    localAS,      \* d.localAS
    loAddr,       \* kernel: the router id /32 is an address of lo
    advPathCh,    \* chan *table.Path, capacity 16
    addrCalls,    \* history: the address calls made on lo
    rpc,          \* the gRPC call Serve waits in: <<>> or <<call>>
    \* ---- global RIB synchronizer (monitorBest, modRib) ----
    monPc,        \* monitorBest's goroutine: "off", "recv", "decide"
    monPaths,     \* paths of the event in hand
    exitCurrentLoop,
    modRibCh,     \* chan []*table.Path, capacity 16
    routes,       \* kernel: main route table, Dst -> route
    neigh4,       \* kernel: IPv4 neighbor table, in listing order
    nDelivered,   \* history: paths delivered by the watch so far
    nForwarded,   \* history: batches sent to modRibCh
    nDropped,     \* history: batches dropped by monitorBest
    lastVerdict,  \* history: "none", or what became of the last batch
    nApplied,     \* history: batches modRib was called with
    lastBatch,    \* history: the batch of the last modRib call
    lastOps,      \* history: the kernel calls of the last modRib call
    best,         \* history: Dst -> nexthop of its last forwarded best path
    kfail,        \* history: a kernel call has failed
    \* ---- configuration reader and signals (ReadConfigfileServe, main) ----
    rdPc,         \* the reader: "wait", "read", "sendBgp", "sendCfg"
    supPc,        \* main: "start", "select", "reload"
    sigCh,        \* chan os.Signal, capacity 1: the signals it holds
    nSig,         \* history: SIGHUPs sent to the process
    cBgp,         \* main: var c *bgpconfig.BgpConfigSet: "nil" or "set"
    fileBgp,      \* the reader: the file in hand has a BGP global section
    \* ---- virtual network workers: EVPN routes and the bridge FDB ----
    evpnLog,      \* the EVPN best paths the watch has delivered, in order
    vnSeen,       \* RD -> events of evpnLog its worker has processed
    fdb           \* kernel: bridge FDB entries of the VXLAN devices (a bag)

cfgVars == << nsnap, d, dataplane, pending, crashed, dpPc, bgpGlobal, vnMap,
              detached, tombDying, tombDead, lastSame, fatal >>

startVars == << routerId, localAS, loAddr, advPathCh, addrCalls, rpc >>

ribVars == << monPc, monPaths, exitCurrentLoop, modRibCh, routes, neigh4,
              nDelivered, nForwarded, nDropped, lastVerdict, nApplied,
              lastBatch, lastOps, best, kfail >>

rdVars == << rdPc, supPc, sigCh, nSig, cBgp, fileBgp >>

vnVars == << evpnLog, vnSeen, fdb >>

vars == << cfgVars, startVars, ribVars, rdVars, vnVars >>

\* Dataplane.GetServer: the router id and the AS of d.config
GetServer == [RouterId |-> bgpGlobal.RouterId, As |-> bgpGlobal.As]

\* the test that ends the retry loop of Serve, on the values GetServer gives
bgpReady == GetServer.RouterId # "" /\ GetServer.As # 0

Requests(as, ds) ==
    [ i \in 1..(Len(as) + Len(ds)) |->
        IF i <= Len(as) THEN [op |-> "add", vn |-> as[i]]
        ELSE [op |-> "del", vn |-> ds[i - Len(as)]] ]

(***************************************************************************)
(* Workers.  vnMap[rd] is the worker the map points at: its configuration  *)
(* and whether its Serve has returned.  detached is the bag of workers     *)
(* whose Serve goroutine still runs and that vnMap does not point at (any  *)
(* more): stopped ones, and ones whose map entry was overwritten.          *)
(***************************************************************************)
BagAdd(B, e) ==
    [ x \in (DOMAIN B) \cup {e} |-> IF x \in DOMAIN B
                                     THEN (IF x = e THEN B[x] + 1 ELSE B[x])
                                     ELSE 1 ]

BagRemove(B, e) ==
    [ x \in { y \in DOMAIN B : y # e \/ B[y] > 1 } |->
        IF x = e THEN B[x] - 1 ELSE B[x] ]

RECURSIVE BagSize(_)
BagSize(B) ==
    IF DOMAIN B = {} THEN 0
    ELSE LET e == CHOOSE x \in DOMAIN B : TRUE
         IN  B[e] + BagSize([ x \in (DOMAIN B) \ {e} |-> B[x] ])

\* t.alive of the dataplane's tomb: the goroutines started by d.t.Go that
\* have not returned
Alive ==
    Cardinality({ rd \in DOMAIN vnMap : ~vnMap[rd].ended }) + BagSize(detached)

InitCfg ==
    /\ nsnap = 0
    /\ d = <<>>
    /\ dataplane = "nil"
    /\ pending = <<>>
    /\ crashed = FALSE
    /\ dpPc = "none"
    /\ bgpGlobal = NoGlobal
    /\ vnMap = << >>
    /\ detached = << >>
    /\ tombDying = FALSE
    /\ tombDead = FALSE
    /\ lastSame = FALSE
    /\ fatal = FALSE

InitStart ==
    /\ routerId = ""
    /\ localAS = 0
    /\ loAddr = FALSE
    /\ advPathCh = <<>>
    /\ addrCalls = <<>>
    /\ rpc = <<>>

InitRibIdle ==
    /\ monPc = "off"
    /\ monPaths = <<>>
    /\ exitCurrentLoop = FALSE
    /\ modRibCh = <<>>
    /\ routes = << >>
    /\ neigh4 = <<>>
    /\ nDelivered = 0
    /\ nForwarded = 0
    /\ nDropped = 0
    /\ lastVerdict = "none"
    /\ nApplied = 0
    /\ lastBatch = <<>>
    /\ lastOps = <<>>
    /\ best = << >>
    /\ kfail = FALSE

\* main has started the reader and is about to send the first reload
\* request; no signal has arrived
InitReader ==
    /\ rdPc = "wait"
    /\ supPc = "start"
    /\ sigCh = 0
    /\ nSig = 0
    /\ cBgp = "nil"
    /\ fileBgp = FALSE

\* no EVPN path has been delivered and the bridge FDB is empty
InitVn ==
    /\ evpnLog = <<>>
    /\ vnSeen = << >>
    /\ fdb = << >>

(***************************************************************************)
(* main.go: case newConfig := <-configCh.  The two for-loops that follow   *)
(* are the calls left in pending; each call is a rendezvous with Serve.    *)
(***************************************************************************)
ConfigCase(newConfig, global) ==
    /\ ~crashed
    /\ pending = <<>>
    /\ nsnap' = nsnap + 1
    /\ IF dataplane = "nil" /\ newConfig.Type = "netlink"
       THEN /\ dataplane' = "netlink"
            /\ dpPc' = "startup"
            /\ bgpGlobal' = global
       ELSE /\ global = ReadyGlobal
            /\ UNCHANGED << dataplane, dpPc, bgpGlobal >>
    /\ LET r == UpdateConfig(d, newConfig)
       IN  pending' = Requests(r[1], r[2])
    /\ lastSame' = (d = << newConfig >>)
    /\ d' = << newConfig >>
    /\ UNCHANGED << crashed, vnMap, detached, tombDying, tombDead, fatal >>
    /\ UNCHANGED << startVars, ribVars >>

\* a snapshot arrives from the configuration reader
RecvConfig(newConfig, global) ==
    /\ nsnap < MaxSnapshots
    /\ ConfigCase(newConfig, global)
    /\ UNCHANGED << rdVars, vnVars >>

\* ReadConfigfileServe: the file cannot be read or unmarshalled, or its BGP
\* part is inconsistent: log.Fatal ends the process, at startup (nsnap = 0)
\* and on a reload (the supervisor handled SIGHUP in its select)
ReadConfigFatal ==
    /\ ~crashed
    /\ nsnap < MaxSnapshots
    /\ pending = <<>>
    /\ crashed' = TRUE
    /\ fatal' = TRUE
    /\ UNCHANGED << nsnap, d, dataplane, pending, dpPc, bgpGlobal, vnMap,
                    detached, tombDying, tombDead, lastSame >>
    /\ UNCHANGED << startVars, ribVars >>
    /\ UNCHANGED << rdVars, vnVars >>

\* dataplane.AddVirtualNetwork(v) / DeleteVirtualNetwork(v) on a nil interface
SupCallNil ==
    /\ ~crashed
    /\ pending # <<>>
    /\ dataplane = "nil"
    /\ crashed' = TRUE
    /\ UNCHANGED << nsnap, d, dataplane, pending, dpPc, bgpGlobal, vnMap,
                    detached, tombDying, tombDead, lastSame, fatal >>
    /\ UNCHANGED << startVars, ribVars >>
    /\ UNCHANGED << rdVars, vnVars >>

(***************************************************************************)
(* Dataplane.Serve: startup.                                               *)
(***************************************************************************)
\* one iteration of the retry loop that ends in the sleep: NewClient
\* failed (nothing is assigned), or it succeeded, d.routerId and d.localAS
\* were assigned from GetServer, and one of them is not set
ServeRetry(clientOk) ==
    /\ ~crashed
    /\ dpPc = "startup"
    /\ IF clientOk
       THEN /\ ~bgpReady
            /\ routerId' = GetServer.RouterId
            /\ localAS' = GetServer.As
       ELSE UNCHANGED << routerId, localAS >>
    /\ UNCHANGED cfgVars
    /\ UNCHANGED << loAddr, advPathCh, addrCalls, rpc, ribVars >>
    /\ UNCHANGED << rdVars, vnVars >>

\* table.NewPath(nil, bgp.NewIPAddrPrefix(32, d.routerId), false, ...)
RouterIdPath ==
    [nlri |-> "10.0.0.1/32", family |-> "ipv4-unicast", nexthop |-> "0.0.0.0",
     IsWithdraw |-> FALSE, source |-> "nil"]

\* the calls of the startup that can fail; ParseAddr does not fail for the
\* router id of a valid configuration
StartupCalls == {"LinkByName", "AddrList", "AddrAdd"}

\* the last iteration of the retry loop, then LinkByName, AddrList or
\* AddrAdd fails: Serve returns an error.  AddrAdd is called only when the
\* address is not on lo.
ServeStartupFail(call) ==
    /\ ~crashed
    /\ dpPc = "startup"
    /\ bgpReady
    /\ call = "AddrAdd" => ~loAddr
    /\ routerId' = GetServer.RouterId
    /\ localAS' = GetServer.As
    /\ addrCalls' = IF call = "AddrAdd" THEN Append(addrCalls, "AddrAdd")
                    ELSE addrCalls
    /\ dpPc' = "returned"
    /\ UNCHANGED << nsnap, d, dataplane, pending, crashed, bgpGlobal, vnMap,
                    detached, tombDying, tombDead, lastSame, fatal >>
    /\ UNCHANGED << loAddr, advPathCh, rpc, ribVars >>
    /\ UNCHANGED << rdVars, vnVars >>

\* variant: AddrAdd is called whether or not the address is on lo
ServeStartupOkAlwaysAdds ==
    /\ ~crashed
    /\ dpPc = "startup"
    /\ bgpReady
    /\ routerId' = GetServer.RouterId
    /\ localAS' = GetServer.As
    /\ loAddr' = TRUE
    /\ addrCalls' = Append(addrCalls, "AddrAdd")
    /\ dpPc' = "advsend"
    /\ UNCHANGED << nsnap, d, dataplane, pending, crashed, bgpGlobal, vnMap,
                    detached, tombDying, tombDead, lastSame, fatal >>
    /\ UNCHANGED << advPathCh, rpc, ribVars >>
    /\ UNCHANGED << rdVars, vnVars >>

\* variant: Serve leaves the retry loop before the router id and AS are set
ServeStartupOkNotReady ==
    /\ ~crashed
    /\ dpPc = "startup"
    /\ routerId' = GetServer.RouterId
    /\ localAS' = GetServer.As
    /\ loAddr' = TRUE
    /\ addrCalls' = IF loAddr THEN addrCalls ELSE Append(addrCalls, "AddrAdd")
    /\ dpPc' = "advsend"
    /\ UNCHANGED << nsnap, d, dataplane, pending, crashed, bgpGlobal, vnMap,
                    detached, tombDying, tombDead, lastSame, fatal >>
    /\ UNCHANGED << advPathCh, rpc, ribVars >>
    /\ UNCHANGED << rdVars, vnVars >>

\* the last iteration of the retry loop (NewClient succeeded, router id and
\* AS are set), then the address is added to lo when it is missing
ServeStartupOk ==
    /\ ~crashed
    /\ dpPc = "startup"
    /\ bgpReady
    /\ routerId' = GetServer.RouterId
    /\ localAS' = GetServer.As
    /\ loAddr' = TRUE
    /\ addrCalls' = IF loAddr THEN addrCalls ELSE Append(addrCalls, "AddrAdd")
    /\ dpPc' = "advsend"
    /\ UNCHANGED << nsnap, d, dataplane, pending, crashed, bgpGlobal, vnMap,
                    detached, tombDying, tombDead, lastSame, fatal >>
    /\ UNCHANGED << advPathCh, rpc, ribVars >>
    /\ UNCHANGED << rdVars, vnVars >>

\* d.advPathCh <- table.NewPath(...): the router id /32 is queued for
\* advertisement (the send waits while 16 paths are queued); Serve then
\* sleeps for ten seconds
ServeSendRouterId ==
    /\ ~crashed
    /\ dpPc = "advsend"
    /\ Len(advPathCh) < AdvPathChCap
    /\ advPathCh' = Append(advPathCh, RouterIdPath)
    /\ dpPc' = "sleep"
    /\ UNCHANGED << nsnap, d, dataplane, pending, crashed, bgpGlobal, vnMap,
                    detached, tombDying, tombDead, lastSame, fatal >>
    /\ UNCHANGED << routerId, localAS, loAddr, addrCalls, rpc, ribVars >>
    /\ UNCHANGED << rdVars, vnVars >>

\* the sleep is over: go d.monitorBest() subscribes to the watch and starts
\* its goroutine, and Serve enters its select loop
ServeGoMonitorBest ==
    /\ ~crashed
    /\ dpPc = "sleep"
    /\ monPc' = "recv"
    /\ dpPc' = "loop"
    /\ UNCHANGED << nsnap, d, dataplane, pending, crashed, bgpGlobal, vnMap,
                    detached, tombDying, tombDead, lastSame, fatal >>
    /\ UNCHANGED << startVars, monPaths, exitCurrentLoop, modRibCh, routes,
                    neigh4, nDelivered, nForwarded, nDropped, lastVerdict,
                    nApplied, lastBatch, lastOps, best, kfail >>
    /\ UNCHANGED << rdVars, vnVars >>

(***************************************************************************)
(* Dataplane.Serve: the select loop.                                       *)
(***************************************************************************)
\* case <-d.t.Dying(): return nil
ServeDying ==
    /\ ~crashed
    /\ dpPc = "loop"
    /\ tombDying
    /\ dpPc' = "returned"
    /\ UNCHANGED << nsnap, d, dataplane, pending, crashed, bgpGlobal, vnMap,
                    detached, tombDying, tombDead, lastSame, fatal >>
    /\ UNCHANGED << startVars, ribVars >>
    /\ UNCHANGED << rdVars, vnVars >>

\* context.Background(): the context of the call has no deadline
NoDeadline == "none"

\* variant: the request names the VRF table for every vrfID
addPathVrfTable(vrfID, path) ==
    [method |-> "AddPath", TableType |-> "VRF", VrfId |-> vrfID,
     path |-> path, deadline |-> NoDeadline]

\* Dataplane.addPath for one path: the request of
\* d.client.AddPath(context.Background(), ...)
addPath(vrfID, path) ==
    [method |-> "AddPath",
     TableType |-> IF vrfID # "" THEN "VRF" ELSE "GLOBAL",
     VrfId |-> vrfID, path |-> path, deadline |-> NoDeadline]

\* Dataplane.AddPath: d.addPath("", pathList)
AddPathCall(path) == addPath("", path)

\* case p := <-d.advPathCh: d.AddPath is called and Serve waits for the
\* answer of the BGP speaker
ServeAdvPath ==
    /\ ~crashed
    /\ dpPc = "loop"
    /\ advPathCh # <<>>
    /\ advPathCh' = Tail(advPathCh)
    /\ rpc' = << AddPathCall(Head(advPathCh)) >>
    /\ dpPc' = "addpath"
    /\ UNCHANGED << nsnap, d, dataplane, pending, crashed, bgpGlobal, vnMap,
                    detached, tombDying, tombDead, lastSame, fatal >>
    /\ UNCHANGED << routerId, localAS, loAddr, addrCalls, ribVars >>
    /\ UNCHANGED << rdVars, vnVars >>

\* variant: an error of AddPath ends Serve
AddPathReturnsFatal(err) ==
    /\ ~crashed
    /\ dpPc = "addpath"
    /\ rpc' = <<>>
    /\ dpPc' = IF err THEN "returned" ELSE "loop"
    /\ UNCHANGED << nsnap, d, dataplane, pending, crashed, bgpGlobal, vnMap,
                    detached, tombDying, tombDead, lastSame, fatal >>
    /\ UNCHANGED << routerId, localAS, loAddr, advPathCh, addrCalls,
                    ribVars >>
    /\ UNCHANGED << rdVars, vnVars >>

\* the BGP speaker answers: AddPath returns, its error is logged, and Serve
\* is back in the select
AddPathReturns(err) ==
    /\ ~crashed
    /\ dpPc = "addpath"
    /\ rpc' = <<>>
    /\ dpPc' = "loop"
    /\ UNCHANGED << nsnap, d, dataplane, pending, crashed, bgpGlobal, vnMap,
                    detached, tombDying, tombDead, lastSame, fatal >>
    /\ UNCHANGED << routerId, localAS, loAddr, advPathCh, addrCalls,
                    ribVars >>
    /\ UNCHANGED << rdVars, vnVars >>

NewVirtualNetwork(v) == [config |-> v, ended |-> FALSE]

MapPut(m, k, v) == [ x \in (DOMAIN m) \cup {k} |-> IF x = k THEN v ELSE m[x] ]
MapDelete(m, k) == [ x \in (DOMAIN m) \ {k} |-> m[x] ]

\* the worker vnMap[rd] is no longer pointed at by the map
Detach(rd, stopped) ==
    IF rd \in DOMAIN vnMap /\ ~vnMap[rd].ended
    THEN BagAdd(detached, [config |-> vnMap[rd].config, stopped |-> stopped])
    ELSE detached

\* vn.Stop(): a shutdown request.  It cancels the worker's context and
\* returns; the worker goes through its Stopping steps on its own goroutine
\* and its Serve returns after them (WorkerServeEnds)
Stop(rd) == Detach(rd, TRUE)

\* case v := <-d.addVnCh (the supervisor's AddVirtualNetwork returns)
ServeAddVn ==
    /\ ~crashed
    /\ dpPc = "loop"
    /\ pending # <<>>
    /\ Head(pending).op = "add"
    /\ LET v == Head(pending).vn
       IN  /\ pending' = Tail(pending)
           /\ vnMap' = MapPut(vnMap, v.RD, NewVirtualNetwork(v))
           /\ detached' = Detach(v.RD, FALSE)
           \* d.t.Go panics once the tomb is dead
           /\ crashed' = tombDead
    /\ UNCHANGED << nsnap, d, dataplane, dpPc, bgpGlobal, tombDying, tombDead,
                    lastSame, fatal >>
    /\ UNCHANGED << startVars, ribVars >>
    /\ UNCHANGED << rdVars, vnVars >>

\* case v := <-d.delVnCh (the supervisor's DeleteVirtualNetwork returns)
ServeDelVn ==
    /\ ~crashed
    /\ dpPc = "loop"
    /\ pending # <<>>
    /\ Head(pending).op = "del"
    /\ LET v == Head(pending).vn
       IN  /\ pending' = Tail(pending)
           /\ IF v.RD \in DOMAIN vnMap
              THEN /\ detached' = Stop(v.RD)
                   /\ vnMap' = MapDelete(vnMap, v.RD)
                   /\ UNCHANGED crashed
              ELSE \* vn is nil: vn.Stop() dereferences it
                   /\ crashed' = TRUE
                   /\ UNCHANGED << detached, vnMap >>
    /\ UNCHANGED << nsnap, d, dataplane, dpPc, bgpGlobal, tombDying, tombDead,
                    lastSame, fatal >>
    /\ UNCHANGED << startVars, ribVars >>
    /\ UNCHANGED << rdVars, vnVars >>

(***************************************************************************)
(* A worker's Serve returns (it was run by d.t.Go): with an error when it  *)
(* failed, normally after Stop.  The tomb is killed when the function      *)
(* returns an error or when no goroutine of the tomb is left.              *)
(***************************************************************************)
TombAfterReturn(err) ==
    /\ tombDying' = (tombDying \/ err \/ Alive = 1)
    /\ tombDead' = (tombDead \/ Alive = 1)

\* the Serve of a worker the map points at returns: it was not stopped
WorkerFails(rd) ==
    /\ ~crashed
    /\ rd \in DOMAIN vnMap
    /\ ~vnMap[rd].ended
    /\ vnMap' = [vnMap EXCEPT ![rd].ended = TRUE]
    /\ TombAfterReturn(TRUE)
    /\ UNCHANGED << nsnap, d, dataplane, pending, crashed, dpPc, bgpGlobal,
                    detached, lastSame, fatal >>
    /\ UNCHANGED << startVars, ribVars >>
    /\ UNCHANGED << rdVars, vnVars >>

\* the Serve of a detached worker returns
WorkerServeEnds(w) ==
    /\ ~crashed
    /\ w \in DOMAIN detached
    /\ detached' = BagRemove(detached, w)
    /\ TombAfterReturn(~w.stopped)
    /\ UNCHANGED << nsnap, d, dataplane, pending, crashed, dpPc, bgpGlobal,
                    vnMap, lastSame, fatal >>
    /\ UNCHANGED << startVars, ribVars >>
    /\ UNCHANGED << rdVars, vnVars >>

(***************************************************************************)
(* Paths of the watch stream (table.Path): the NLRI, its route family, the *)
(* nexthop attribute, the withdraw flag and the source (GetSource()):      *)
(* "peer" a peer's PeerInfo with an address, "noaddr" a PeerInfo without   *)
(* an address (a path of the local speaker), "nil" no PeerInfo at all.     *)
(***************************************************************************)
NoIP == "nil"

NilPath ==
    [nlri |-> "", family |-> "nil", nexthop |-> NoIP, IsWithdraw |-> FALSE,
     source |-> "nil"]

Paths ==
    { [nlri |-> "10.0.0.0/24", family |-> "ipv4-unicast",
       nexthop |-> "192.168.0.1", IsWithdraw |-> FALSE, source |-> "peer"],
      [nlri |-> "10.0.1.0/24", family |-> "ipv4-unicast",
       nexthop |-> "192.168.0.2", IsWithdraw |-> FALSE, source |-> "peer"],
      [nlri |-> "10.0.1.0/24", family |-> "ipv4-unicast",
       nexthop |-> "192.168.0.2", IsWithdraw |-> TRUE, source |-> "peer"],
      [nlri |-> "10.0.0.0/24", family |-> "ipv4-unicast",
       nexthop |-> "192.168.0.1", IsWithdraw |-> FALSE, source |-> "noaddr"],
      [nlri |-> "10.0.1.0/24", family |-> "ipv4-unicast",
       nexthop |-> "192.168.0.2", IsWithdraw |-> FALSE, source |-> "nil"],
      [nlri |-> "10.0.0.0/24", family |-> "ipv4-unicast",
       nexthop |-> "fe80::1", IsWithdraw |-> FALSE, source |-> "peer"],
      [nlri |-> "10.0.1.0/24", family |-> "ipv4-unicast",
       nexthop |-> "fe80::2", IsWithdraw |-> FALSE, source |-> "peer"],
      [nlri |-> "65000:10", family |-> "l2vpn-evpn",
       nexthop |-> "192.168.0.1", IsWithdraw |-> FALSE, source |-> "peer"],
      NilPath }

\* nh.To4() != nil
IsIPv4(ip) == ip \in {"192.168.0.1", "192.168.0.2", "0.0.0.0", "169.254.0.1", "10.1.1.1"}

\* kernel: the IPv6 neighbor table, IP -> entry
Neigh6 == [ x \in {"fe80::1"} |-> [LinkIndex |-> 2, HardwareAddr |-> "aa:aa:aa:aa:aa:01"] ]

(***************************************************************************)
(* toPathAPI: NeighborIp is s.Address.String() when the path has a source, *)
(* and stays the empty string when it has none; a nil net.IP prints as     *)
(* "<nil>".                                                                *)
(***************************************************************************)
NeighborIp(path) ==
    IF path.source = "nil" THEN ""
    ELSE IF path.source = "noaddr" THEN "<nil>"
    ELSE "192.168.0.254"

(***************************************************************************)
(* Dataplane.getNexthop.  n4 is the IPv4 neighbor table when it is called, *)
(* out the outcome of its kernel calls: "ok", "fail6" (the IPv6 listing    *)
(* fails), "fail4" (the IPv4 listing fails), "failadd" (NeighAdd fails).   *)
(* The result carries the table afterwards and the calls that change the   *)
(* kernel.                                                                 *)
(***************************************************************************)
Nexthop(link, gw, flags, n4, ops) ==
    [LinkIndex |-> link, Gw |-> gw, Flags |-> flags, n4 |-> n4, ops |-> ops]

\* variant: the route through the installed 169.254.0.1 neighbor is not
\* flagged ONLINK
getNexthopNoOnlink(path, n4, out) ==
    IF path = NilPath \/ NeighborIp(path) = "<nil>"
    THEN Nexthop(0, NoIP, 0, n4, <<>>)
    ELSE IF IsIPv4(path.nexthop)
    THEN Nexthop(0, path.nexthop, 0, n4, <<>>)
    ELSE IF out = "fail6" \/ path.nexthop \notin DOMAIN Neigh6
    THEN Nexthop(0, NoIP, 0, n4, <<>>)
    ELSE LET neigh == Neigh6[path.nexthop]
             hit == { i \in 1..Len(n4) :
                        /\ n4[i].LinkIndex = neigh.LinkIndex
                        /\ n4[i].HardwareAddr = neigh.HardwareAddr }
         IN  IF out = "fail4"
             THEN Nexthop(0, NoIP, 0, n4, <<>>)
             ELSE IF hit # {}
             THEN LET n == n4[CHOOSE i \in hit : \A j \in hit : i <= j]
                  IN  Nexthop(n.LinkIndex, n.IP, FLAG_ONLINK, n4, <<>>)
             ELSE LET n == [LinkIndex |-> neigh.LinkIndex, IP |-> "169.254.0.1",
                            HardwareAddr |-> neigh.HardwareAddr,
                            State |-> "NUD_PERMANENT"]
                  IN  Nexthop(neigh.LinkIndex, "169.254.0.1", 0,
                              IF out = "failadd" THEN n4 ELSE Append(n4, n),
                              << [call |-> "NeighAdd", neigh |-> n,
                                  failed |-> (out = "failadd")] >>)

getNexthop(path, n4, out) ==
    IF path = NilPath \/ NeighborIp(path) = "<nil>"
    THEN Nexthop(0, NoIP, 0, n4, <<>>)
    ELSE IF IsIPv4(path.nexthop)
    THEN Nexthop(0, path.nexthop, 0, n4, <<>>)
    ELSE IF out = "fail6" \/ path.nexthop \notin DOMAIN Neigh6
    THEN Nexthop(0, NoIP, 0, n4, <<>>)
    ELSE LET neigh == Neigh6[path.nexthop]
             hit == { i \in 1..Len(n4) :
                        /\ n4[i].LinkIndex = neigh.LinkIndex
                        /\ n4[i].HardwareAddr = neigh.HardwareAddr }
         IN  IF out = "fail4"
             THEN Nexthop(0, NoIP, 0, n4, <<>>)
             ELSE IF hit # {}
             THEN LET n == n4[CHOOSE i \in hit : \A j \in hit : i <= j]
                  IN  Nexthop(n.LinkIndex, n.IP, FLAG_ONLINK, n4, <<>>)
             ELSE LET n == [LinkIndex |-> neigh.LinkIndex, IP |-> "169.254.0.1",
                            HardwareAddr |-> neigh.HardwareAddr,
                            State |-> "NUD_PERMANENT"]
                  IN  Nexthop(neigh.LinkIndex, "169.254.0.1", FLAG_ONLINK,
                              IF out = "failadd" THEN n4 ELSE Append(n4, n),
                              << [call |-> "NeighAdd", neigh |-> n,
                                  failed |-> (out = "failadd")] >>)

\* the outcomes a call of getNexthop can have for this path
Outcomes(path) ==
    IF path = NilPath \/ NeighborIp(path) = "<nil>" \/ IsIPv4(path.nexthop)
    THEN {"ok"}
    ELSE {"ok", "fail6", "fail4", "failadd"}

(***************************************************************************)
(* Dataplane.modRib, up to the route it hands to the kernel: the result is *)
(* the neighbor table afterwards, the NeighAdd calls made, and the route   *)
(* call.                                                                   *)
(***************************************************************************)
RECURSIVE MultiPath(_, _, _, _, _)
MultiPath(paths, i, outs, n4, acc) ==
    IF i > Len(paths) THEN [mp |-> acc.mp, n4 |-> n4, ops |-> acc.ops]
    ELSE IF NeighborIp(paths[i]) = "<nil>"
    THEN MultiPath(paths, i + 1, outs, n4, acc)
    ELSE LET nh == getNexthop(paths[i], n4, outs[i])
         IN  MultiPath(paths, i + 1, outs, nh.n4,
                       [mp |-> Append(acc.mp, [Gw |-> nh.Gw,
                                               LinkIndex |-> nh.LinkIndex,
                                               Flags |-> nh.Flags]),
                        ops |-> acc.ops \o nh.ops])

Route(dst, src, gw, link, flags, mp) ==
    [Dst |-> dst, Src |-> src, Gw |-> gw, LinkIndex |-> link, Flags |-> flags,
     MultiPath |-> mp]

\* modRib returns before it calls RouteDel or RouteReplace
NoCall == [call |-> "none"]

RouteCall(p, route) ==
    [call |-> IF p.IsWithdraw THEN "RouteDel" ELSE "RouteReplace",
     route |-> route]

modRib(paths, outs, n4, rid) ==
    IF Len(paths) = 0 THEN [n4 |-> n4, ops |-> <<>>, route |-> NoCall]
    ELSE LET p == paths[1]
         IN  IF Len(paths) = 1
             THEN IF NeighborIp(p) = "<nil>"
                  THEN [n4 |-> n4, ops |-> <<>>, route |-> NoCall]
                  ELSE LET nh == getNexthop(p, n4, outs[1])
                       IN  [n4 |-> nh.n4, ops |-> nh.ops,
                            route |-> RouteCall(p, Route(p.nlri, rid, nh.Gw,
                                          nh.LinkIndex, nh.Flags, <<>>))]
             ELSE LET r == MultiPath(paths, 1, outs, n4, [mp |-> <<>>, ops |-> <<>>])
                  IN  IF Len(r.mp) = 0
                      THEN [n4 |-> r.n4, ops |-> r.ops, route |-> NoCall]
                      ELSE [n4 |-> r.n4, ops |-> r.ops,
                            route |-> RouteCall(p, Route(p.nlri, rid, NoIP, 0, 0, r.mp))]

(***************************************************************************)
(* Watch events: a WatchEventBestPath carries PathList and, with multipath *)
(* enabled, MultiPathList (one list of siblings per destination); a        *)
(* WatchEventUpdate carries PathList.                                      *)
(***************************************************************************)
\* the siblings of each destination, in the order of ps
RECURSIVE ByDestination(_)
ByDestination(ps) ==
    IF ps = <<>> THEN <<>>
    ELSE LET dst == Head(ps).nlri
             same == SelectSeq(ps, LAMBDA p : p.nlri = dst)
             rest == SelectSeq(ps, LAMBDA p : p.nlri # dst)
         IN  << same >> \o ByDestination(rest)

RECURSIVE Flatten(_)
Flatten(ll) == IF ll = <<>> THEN <<>> ELSE Head(ll) \o Flatten(Tail(ll))

\* the events that carry the paths ps
EventsOf(ps) ==
    { [kind |-> "BestPath", MultiPathList |-> <<>>, PathList |-> ps],
      [kind |-> "Update", MultiPathList |-> <<>>, PathList |-> ps],
      [kind |-> "BestPath", MultiPathList |-> ByDestination(ps),
       PathList |-> IF ps = <<>> THEN <<>> ELSE << Head(ps) >>] }

EventPaths(ev) ==
    IF ev.kind = "BestPath" /\ Len(ev.MultiPathList) > 0
    THEN Flatten(ev.MultiPathList)
    ELSE ev.PathList

Cost(paths) == IF Len(paths) = 0 THEN 1 ELSE Len(paths)

\* the range loop over paths: path == nil || family != path.GetRouteFamily()
OtherFamily(paths) ==
    \E i \in 1..Len(paths) :
        paths[i] = NilPath \/ paths[i].family # "ipv4-unicast"

\* history: the best path of each destination after a forwarded batch
RECURSIVE BestAfter(_, _)
BestAfter(b, paths) ==
    IF paths = <<>> THEN b
    ELSE LET p == Head(paths)
         IN  BestAfter(IF p.IsWithdraw THEN MapDelete(b, p.nlri)
                       ELSE IF p.source # "peer" THEN b
                       ELSE IF IsIPv4(p.nexthop)
                       THEN MapPut(b, p.nlri, p.nexthop)
                       ELSE MapDelete(b, p.nlri),
                       Tail(paths))

(***************************************************************************)
(* monitorBest's goroutine: one iteration of its loop in two steps, the    *)
(* receive with the scan of the paths, then the send (which blocks while   *)
(* modRibCh is full) or the reset of exitCurrentLoop.                      *)
(***************************************************************************)
MonitorRecv(ev) ==
    /\ ~crashed
    /\ monPc = "recv"
    /\ nDelivered' = nDelivered + Cost(EventPaths(ev))
    /\ monPaths' = EventPaths(ev)
    /\ exitCurrentLoop' = (exitCurrentLoop \/ OtherFamily(EventPaths(ev)))
    /\ monPc' = "decide"
    /\ UNCHANGED << modRibCh, routes, neigh4, nForwarded, nDropped,
                    lastVerdict, nApplied, lastBatch, lastOps, best, kfail >>
    /\ UNCHANGED << cfgVars, startVars >>
    /\ UNCHANGED << rdVars, vnVars >>

\* variant: exitCurrentLoop is not reset after a dropped batch
MonitorSendKeepFlag ==
    /\ ~crashed
    /\ monPc = "decide"
    /\ IF exitCurrentLoop = FALSE
       THEN /\ Len(modRibCh) < ModRibChCap
            /\ modRibCh' = Append(modRibCh, [seq |-> nForwarded + 1,
                                             paths |-> monPaths])
            /\ nForwarded' = nForwarded + 1
            /\ best' = BestAfter(best, monPaths)
            /\ lastVerdict' = "forwarded"
            /\ UNCHANGED nDropped
       ELSE /\ nDropped' = nDropped + 1
            /\ lastVerdict' = "dropped"
            /\ UNCHANGED << modRibCh, nForwarded, best >>
    /\ UNCHANGED exitCurrentLoop
    /\ monPaths' = <<>>
    /\ monPc' = "recv"
    /\ UNCHANGED << routes, neigh4, nDelivered, nApplied, lastBatch, lastOps,
                    kfail >>
    /\ UNCHANGED << cfgVars, startVars >>
    /\ UNCHANGED << rdVars, vnVars >>

MonitorSend ==
    /\ ~crashed
    /\ monPc = "decide"
    /\ IF exitCurrentLoop = FALSE
       THEN /\ Len(modRibCh) < ModRibChCap
            /\ modRibCh' = Append(modRibCh, [seq |-> nForwarded + 1,
                                             paths |-> monPaths])
            /\ nForwarded' = nForwarded + 1
            /\ best' = BestAfter(best, monPaths)
            /\ lastVerdict' = "forwarded"
            /\ UNCHANGED << exitCurrentLoop, nDropped >>
       ELSE /\ exitCurrentLoop' = FALSE
            /\ nDropped' = nDropped + 1
            /\ lastVerdict' = "dropped"
            /\ UNCHANGED << modRibCh, nForwarded, best >>
    /\ monPaths' = <<>>
    /\ monPc' = "recv"
    /\ UNCHANGED << routes, neigh4, nDelivered, nApplied, lastBatch, lastOps,
                    kfail >>
    /\ UNCHANGED << cfgVars, startVars >>
    /\ UNCHANGED << rdVars, vnVars >>

(***************************************************************************)
(* Dataplane.Serve: case paths := <-d.modRibCh.  ok is the outcome of the  *)
(* route call: RouteReplace puts the route, RouteDel removes the route of  *)
(* the destination and fails when there is none.  An error is logged.      *)
(***************************************************************************)
KernelRoutes(rt, c, ok) ==
    IF c.call = "none" \/ ~ok THEN rt
    ELSE IF c.call = "RouteReplace"
    THEN MapPut(rt, c.route.Dst, c.route)
    ELSE MapDelete(rt, c.route.Dst)

CanSucceed(rt, c) ==
    IF c.call = "RouteDel" THEN c.route.Dst \in DOMAIN rt ELSE TRUE

\* the outcomes the route call can have: none is made, or it succeeds or fails
RouteOutcomes(rt, c) ==
    IF c.call = "none" THEN {TRUE}
    ELSE IF CanSucceed(rt, c) THEN {TRUE, FALSE} ELSE {FALSE}

Calls(r) == r.ops \o (IF r.route.call = "none" THEN <<>> ELSE << r.route >>)

\* variant: a batch whose route call failed is queued again
ServeModRibRetry(outs, ok) ==
    /\ ~crashed
    /\ dpPc = "loop"
    /\ modRibCh # <<>>
    /\ \A i \in 1..Len(outs) : outs[i] \in Outcomes(Head(modRibCh).paths[i])
    /\ LET paths == Head(modRibCh).paths
           r == modRib(paths, outs, neigh4, routerId)
       IN  /\ ok \in RouteOutcomes(routes, r.route)
           /\ modRibCh' = IF ok THEN Tail(modRibCh)
                          ELSE Append(Tail(modRibCh), Head(modRibCh))
           /\ nApplied' = nApplied + 1
           /\ lastBatch' = paths
           /\ lastOps' = Calls(r)
           /\ neigh4' = r.n4
           /\ routes' = KernelRoutes(routes, r.route, ok)
           /\ kfail' = (kfail \/ ~ok \/ \E i \in 1..Len(outs) : outs[i] # "ok")
    /\ UNCHANGED << monPc, monPaths, exitCurrentLoop, nDelivered, nForwarded,
                    nDropped, lastVerdict, best >>
    /\ UNCHANGED << cfgVars, startVars >>
    /\ UNCHANGED << rdVars, vnVars >>

ServeModRib(outs, ok) ==
    /\ ~crashed
    /\ dpPc = "loop"
    /\ modRibCh # <<>>
    /\ \A i \in 1..Len(outs) : outs[i] \in Outcomes(Head(modRibCh).paths[i])
    /\ LET paths == Head(modRibCh).paths
           r == modRib(paths, outs, neigh4, routerId)
       IN  /\ ok \in RouteOutcomes(routes, r.route)
           /\ modRibCh' = Tail(modRibCh)
           /\ nApplied' = nApplied + 1
           /\ lastBatch' = paths
           /\ lastOps' = Calls(r)
           /\ neigh4' = r.n4
           /\ routes' = KernelRoutes(routes, r.route, ok)
           /\ kfail' = (kfail \/ ~ok \/ \E i \in 1..Len(outs) : outs[i] # "ok")
    /\ UNCHANGED << monPc, monPaths, exitCurrentLoop, nDelivered, nForwarded,
                    nDropped, lastVerdict, best >>
    /\ UNCHANGED << cfgVars, startVars >>
    /\ UNCHANGED << rdVars, vnVars >>

KernelOutcomes == {"ok", "fail6", "fail4", "failadd"}

NextRibUpTo(n) ==
    \/ \E ps \in SeqsUpTo(Paths, n - nDelivered) :
         \E ev \in EventsOf(ps) :
           /\ nDelivered + Cost(EventPaths(ev)) <= n
           /\ MonitorRecv(ev)
    \/ MonitorSend
    \/ /\ modRibCh # <<>>
       /\ \E ok \in BOOLEAN :
            \E outs \in [1..Len(Head(modRibCh).paths) -> KernelOutcomes] :
              ServeModRib(outs, ok)

NextRib == NextRibUpTo(MaxDelivered)

NextCfg ==
    \/ \E c \in DataplaneConfig, g \in GlobalConfig : RecvConfig(c, g)
    \/ ReadConfigFatal
    \/ SupCallNil
    \/ \E clientOk \in BOOLEAN : ServeRetry(clientOk)
    \/ \E call \in StartupCalls : ServeStartupFail(call)
    \/ ServeStartupOk
    \/ ServeSendRouterId
    \/ ServeGoMonitorBest
    \/ ServeDying
    \/ ServeAdvPath
    \/ \E err \in BOOLEAN : AddPathReturns(err)
    \/ ServeAddVn
    \/ ServeDelVn
    \/ \E rd \in DOMAIN vnMap : WorkerFails(rd)
    \/ \E w \in DOMAIN detached : WorkerServeEnds(w)

Init == InitCfg /\ InitStart /\ InitRibIdle /\ InitReader /\ InitVn

Next == NextCfg

Spec == Init /\ [][Next]_vars

(***************************************************************************)
(* The global RIB synchronizer on its own: the dataplane has started with  *)
(* a configuration without virtual networks, the router id has been        *)
(* advertised, and the supervisor receives no further snapshot.            *)
(***************************************************************************)
InitLoop ==
    /\ nsnap = 1
    /\ d = << [Type |-> "netlink", VirtualNetworkList |-> <<>>] >>
    /\ dataplane = "netlink"
    /\ pending = <<>>
    /\ crashed = FALSE
    /\ dpPc = "loop"
    /\ bgpGlobal = ReadyGlobal
    /\ vnMap = << >>
    /\ detached = << >>
    /\ tombDying = FALSE
    /\ tombDead = FALSE
    /\ lastSame = FALSE
    /\ fatal = FALSE
    /\ routerId = RouterIdCfg
    /\ localAS = LocalAsCfg
    /\ loAddr = TRUE
    /\ addrCalls = << "AddrAdd" >>
    /\ rpc = <<>>
    /\ monPc = "recv"
    /\ monPaths = <<>>
    /\ exitCurrentLoop = FALSE
    /\ modRibCh = <<>>
    /\ routes = << >>
    /\ nDelivered = 0
    /\ nForwarded = 0
    /\ nDropped = 0
    /\ lastVerdict = "none"
    /\ nApplied = 0
    /\ lastBatch = <<>>
    /\ lastOps = <<>>
    /\ best = << >>
    /\ kfail = FALSE
    /\ rdPc = "wait"
    /\ supPc = "select"
    /\ sigCh = 0
    /\ nSig = 0
    /\ cBgp = "set"
    /\ fileBgp = FALSE
    /\ InitVn

InitRib ==
    /\ InitLoop
    /\ advPathCh = <<>>
    /\ neigh4 = <<>>

SpecRib == InitRib /\ [][NextRib]_vars

(***************************************************************************)
(* The same, on a host whose IPv4 neighbor table already holds a neighbor  *)
(* with the hardware address of the IPv6 neighbor fe80::1, on its link.    *)
(***************************************************************************)
Neigh4Known ==
    << [LinkIndex |-> 2, IP |-> "10.1.1.1",
        HardwareAddr |-> "aa:aa:aa:aa:aa:01", State |-> "NUD_REACHABLE"] >>

InitNeigh ==
    /\ InitLoop
    /\ advPathCh = <<>>
    /\ neigh4 = Neigh4Known

SpecNeigh == InitNeigh /\ [][NextRib]_vars

(***************************************************************************)
(* The select loop of Serve with both of its event queues: the router id   *)
(* path waits in advPathCh when the loop is entered.                       *)
(***************************************************************************)
InitEv ==
    /\ InitLoop
    /\ advPathCh = << RouterIdPath >>
    /\ neigh4 = <<>>

NextEv ==
    \/ NextRibUpTo(MaxEvents)
    \/ ServeAdvPath
    \/ \E err \in BOOLEAN : AddPathReturns(err)

SpecEv == InitEv /\ [][NextEv]_vars

(***************************************************************************)
(* The start of the process up to the select loop of Serve, on a host      *)
(* whose loopback may or may not have the router id address.  The          *)
(* snapshots have no virtual networks, so the supervisor makes no add or   *)
(* delete call, and the watch delivers no event.                           *)
(***************************************************************************)
InitBoot ==
    /\ InitCfg
    /\ routerId = ""
    /\ localAS = 0
    /\ loAddr \in BOOLEAN
    /\ advPathCh = <<>>
    /\ addrCalls = <<>>
    /\ rpc = <<>>
    /\ InitRibIdle
    /\ InitReader
    /\ InitVn

NextBoot ==
    \/ \E c \in DataplaneConfig, g \in GlobalConfig :
         /\ c.VirtualNetworkList = <<>>
         /\ RecvConfig(c, g)
    \/ ReadConfigFatal
    \/ \E clientOk \in BOOLEAN : ServeRetry(clientOk)
    \/ \E call \in StartupCalls : ServeStartupFail(call)
    \/ ServeStartupOk
    \/ ServeSendRouterId
    \/ ServeGoMonitorBest
    \/ ServeAdvPath
    \/ \E err \in BOOLEAN : AddPathReturns(err)

SpecBoot == InitBoot /\ [][NextBoot]_vars

(***************************************************************************)
(* Properties.                                                             *)
(***************************************************************************)
\* workers of rd whose Serve runs and that have not been stopped
RunningIn(map, det, rd) ==
    (IF rd \in DOMAIN map /\ ~map[rd].ended THEN 1 ELSE 0)
    + BagSize([ w \in { x \in DOMAIN det : x.config.RD = rd /\ ~x.stopped }
                  |-> det[w] ])

Running(rd) == RunningIn(vnMap, detached, rd)

AllRDs == { v.RD : v \in VirtualNetwork }

\* C1: at most one worker is started and not yet stopped per RD, at any
\* instant and for every sequence of snapshots, also when a
\* virtual-network-list repeats an RD.
C1_AtMostOneWorkerPerRD == \A rd \in AllRDs : Running(rd) <= 1

\* C2: once the supervisor has made every add/delete call of a snapshot, the
\* RDs that have a live worker registered in vnMap (one whose Serve has not
\* returned) are the RDs of that snapshot's virtual-network-list; a snapshot
\* that adds an RD followed by one that removes it leaves no worker
\* registered for it.
C2_VnMapMatchesSnapshot ==
    (d # <<>> /\ pending = <<>>) =>
        { rd \in DOMAIN vnMap : ~vnMap[rd].ended }
            = RDsOf(d[1].VirtualNetworkList)

\* the entries of list whose RD occurs once in it
UniqueRD(list, i) == \A k \in 1..Len(list) : list[k].RD = list[i].RD => k = i

\* C3: when a snapshot holds an RD of the previous snapshot with another
\* field changed, the supervisor issues a delete for the old VirtualNetwork
\* and then an add for the new one.
C3_FieldChangeIsDeleteThenAdd ==
    [][ IF nsnap' = nsnap + 1 /\ d # <<>> THEN
          LET old == d[1].VirtualNetworkList
              new == d'[1].VirtualNetworkList
          IN  \A i \in 1..Len(old), j \in 1..Len(new) :
                ( /\ old[i].RD = new[j].RD
                  /\ old[i] # new[j]
                  /\ UniqueRD(old, i)
                  /\ UniqueRD(new, j) )
                => \E a, b \in 1..Len(pending') :
                     /\ a < b
                     /\ pending'[a] = [op |-> "del", vn |-> old[i]]
                     /\ pending'[b] = [op |-> "add", vn |-> new[j]]
        ELSE TRUE
      ]_vars

\* the entries of list whose RD occurs nowhere in other
RDNowhereIn(list, other) ==
    SelectSeq(list, LAMBDA n : n.RD \notin RDsOf(other))

\* C4: UpdateConfig(cur, new) returns as added exactly the entries of new
\* whose RD occurs nowhere in cur and as deleted exactly the entries of cur
\* whose RD occurs nowhere in new (the whole of new and nothing when cur is
\* absent); the supervisor makes one add call per added entry, then one
\* delete call per deleted entry; every add call Serve takes starts one
\* worker and registers it, and every delete call Serve takes finds a
\* worker registered for the RD, stops it and removes the entry.
C4_UpdateConfigDiff ==
    [][ /\ IF nsnap' = nsnap + 1
           THEN LET new == d'[1].VirtualNetworkList
                    cur == IF d = <<>> THEN <<>> ELSE d[1].VirtualNetworkList
                IN  pending' = Requests(RDNowhereIn(new, cur),
                                        IF d = <<>> THEN <<>>
                                        ELSE RDNowhereIn(cur, new))
           ELSE TRUE
        /\ IF pending # <<>> /\ pending' = Tail(pending)
           THEN LET v == Head(pending).vn
                IN  IF Head(pending).op = "add"
                    THEN /\ ~crashed'
                         /\ Alive' = Alive + 1
                         /\ vnMap'[v.RD] = [config |-> v, ended |-> FALSE]
                    ELSE IF v.RD \in DOMAIN vnMap
                    THEN /\ ~crashed'
                         /\ v.RD \notin DOMAIN vnMap'
                         /\ Alive' = Alive
                         /\ IF vnMap[v.RD].ended THEN detached' = detached
                            ELSE /\ [config |-> vnMap[v.RD].config,
                                      stopped |-> TRUE] \in DOMAIN detached'
                                 /\ RunningIn(vnMap', detached', v.RD)
                                      = Running(v.RD) - 1
                    ELSE FALSE
           ELSE TRUE
      ]_vars

\* C5: a snapshot identical to the one applied before it is a no-op: added
\* and deleted are empty, no add/delete call is made, vnMap and the workers
\* are unchanged.
C5_SameSnapshotIsNoOp ==
    [][ IF nsnap' = nsnap + 1 /\ d # <<>> /\ d' = d THEN
          /\ UpdateConfig(d, d'[1]) = << <<>>, <<>> >>
          /\ pending' = <<>>
          /\ vnMap' = vnMap
          /\ detached' = detached
          /\ dataplane' = dataplane
          /\ dpPc' = dpPc
        ELSE TRUE
      ]_vars

\* the second of two identical snapshots with virtual networks has been
\* received, and the workers of the first are registered
C5_Witness ==
    /\ lastSame
    /\ ~crashed
    /\ pending = <<>>
    /\ Len(d[1].VirtualNetworkList) = 2
    /\ Cardinality(DOMAIN vnMap) = 2

\* the gateways of a kernel route
Gateways(route) ==
    {route.Gw} \cup { route.MultiPath[i].Gw : i \in 1..Len(route.MultiPath) }

\* C6: for every IPv4-unicast best path (prefix, nh) forwarded by the watch
\* reader and not self-originated, once every delivered event has been
\* processed (and no kernel call has failed) the kernel table has a route
\* for the path's own prefix with nh among its gateways, also when one event
\* carries paths of several prefixes.
C6_BestPathHasRoute ==
    (monPc = "recv" /\ modRibCh = <<>> /\ ~kfail) =>
        \A dst \in DOMAIN best :
            /\ dst \in DOMAIN routes
            /\ best[dst] \in Gateways(routes[dst])

\* C7: for each batch modRib is called with, every active path of a peer
\* results in a RouteReplace for its own prefix with Src = router id, and
\* every withdrawn path in a RouteDel for its own prefix, also in a batch
\* that mixes active and withdrawn paths.
C7_BatchIsPartitioned ==
    \A i \in 1..Len(lastBatch) :
        LET p == lastBatch[i]
        IN  p.source = "peer" =>
              \E k \in 1..Len(lastOps) :
                  IF p.IsWithdraw
                  THEN IF lastOps[k].call = "RouteDel"
                       THEN lastOps[k].route.Dst = p.nlri
                       ELSE FALSE
                  ELSE IF lastOps[k].call = "RouteReplace"
                       THEN /\ lastOps[k].route.Dst = p.nlri
                            /\ lastOps[k].route.Src = routerId
                       ELSE FALSE

\* C8: a batch of self-originated paths (paths without a neighbor address:
\* the source record is absent, or its address is) makes modRib issue no
\* kernel call: no RouteReplace, no RouteDel, no NeighAdd.
C8_SelfOriginatedNoMutation ==
    (\A i \in 1..Len(lastBatch) : lastBatch[i].source \in {"nil", "noaddr"})
        => lastOps = <<>>

AllIPv4Unicast(paths) ==
    \A i \in 1..Len(paths) :
        paths[i] # NilPath /\ paths[i].family = "ipv4-unicast"

\* C9: monitorBest forwards the event in hand to modRibCh if and only if
\* every path of it is a non-nil IPv4-unicast path, otherwise it drops the
\* whole batch; a drop does not persist: the flag is clear whenever the next
\* event is received.
C9_ForwardIffAllIPv4 ==
    [][ IF monPc = "decide" /\ monPc' = "recv" THEN
          /\ IF AllIPv4Unicast(monPaths)
             THEN /\ Len(modRibCh') = Len(modRibCh) + 1
                  /\ modRibCh'[Len(modRibCh')].paths = monPaths
                  /\ SubSeq(modRibCh', 1, Len(modRibCh)) = modRibCh
             ELSE modRibCh' = modRibCh
          /\ exitCurrentLoop' = FALSE
        ELSE TRUE
      ]_vars

\* an all-IPv4-unicast batch was forwarded after a batch had been dropped
C9_Witness ==
    /\ monPc = "recv"
    /\ nDropped >= 1
    /\ lastVerdict = "forwarded"
    /\ modRibCh # <<>>
    /\ modRibCh[Len(modRibCh)].paths # <<>>

\* C10: the forwarded batches are applied in the order they were forwarded,
\* each once: the batches modRib has been called with are the first nApplied
\* forwarded ones, and the queue holds the rest in order, also after a
\* batch's kernel call failed.
C10_AppliedInForwardOrder ==
    /\ nApplied + Len(modRibCh) = nForwarded
    /\ \A i \in 1..Len(modRibCh) : modRibCh[i].seq = nApplied + i

\* two batches have been applied, a kernel call of the first or second
\* failed, and a third waits in the queue
C10_Witness ==
    /\ nApplied = 2
    /\ kfail
    /\ Len(modRibCh) = 1
    /\ lastOps # <<>>

\* the route calls among the kernel calls of the last modRib call
RouteCallsOf(ops) ==
    SelectSeq(ops, LAMBDA c : c.call \in {"RouteReplace", "RouteDel"})

NeighAddsOf(ops) == SelectSeq(ops, LAMBDA c : c.call = "NeighAdd")

\* C11: the multipath route modRib writes to the kernel for a batch of
\* sibling paths (paths of one prefix) has no nexthop entry with an absent
\* gateway: a sibling whose resolution yields no nexthop is skipped.
C11_NoAbsentGatewayInMultipath ==
    (\A i \in 1..Len(lastBatch) : lastBatch[i].nlri = lastBatch[1].nlri) =>
        \A k \in 1..Len(RouteCallsOf(lastOps)) :
            LET c == RouteCallsOf(lastOps)[k]
            IN  c.call = "RouteReplace" =>
                  \A i \in 1..Len(c.route.MultiPath) :
                      c.route.MultiPath[i].Gw # NoIP

\* the IPv4 neighbors on the link of the IPv6 neighbor nh that have its
\* hardware address
SameMac(n4, nh) ==
    { i \in 1..Len(n4) : /\ n4[i].LinkIndex = Neigh6[nh].LinkIndex
                         /\ n4[i].HardwareAddr = Neigh6[nh].HardwareAddr }

\* modRib is called with one path of a peer whose nexthop is not IPv4
ResolvesOne ==
    /\ modRibCh # <<>>
    /\ nApplied' = nApplied + 1
    /\ Len(Head(modRibCh).paths) = 1
    /\ Head(modRibCh).paths[1].source = "peer"
    /\ ~IsIPv4(Head(modRibCh).paths[1].nexthop)

\* C12: when the nexthop is in the IPv6 neighbor table and an IPv4 neighbor
\* on link L has its hardware address, getNexthop gives (L, that neighbor's
\* IPv4 address, flags = 0): the route modRib hands to the kernel has that
\* link and gateway and no ONLINK flag.
C12_KnownNeighborNoOnlink ==
    [][ IF ResolvesOne
        THEN LET nh == Head(modRibCh).paths[1].nexthop
                 c == RouteCallsOf(lastOps')[1]
             IN  IF nh \in DOMAIN Neigh6
                 THEN IF SameMac(neigh4, nh) # {} /\ c.route.Gw # NoIP
                      THEN \E i \in SameMac(neigh4, nh) :
                             /\ c.route.LinkIndex = neigh4[i].LinkIndex
                             /\ c.route.Gw = neigh4[i].IP
                             /\ c.route.Flags = 0
                      ELSE TRUE
                 ELSE TRUE
        ELSE TRUE
      ]_vars

\* C13: when the nexthop has an IPv6 neighbor entry (L, M) and no IPv4
\* neighbor on L has hardware address M, getNexthop calls NeighAdd for the
\* permanent neighbor (169.254.0.1, M) on L and gives (L, 169.254.0.1,
\* FLAG_ONLINK); when the nexthop has no IPv6 neighbor entry the result is
\* no nexthop, no NeighAdd is called and the IPv4 neighbor table is
\* unchanged.
C13_LinkLocalNeighbor ==
    [][ IF ResolvesOne
        THEN LET nh == Head(modRibCh).paths[1].nexthop
                 c == RouteCallsOf(lastOps')[1]
                 adds == NeighAddsOf(lastOps')
             IN  IF nh \notin DOMAIN Neigh6
                 THEN /\ c.route.Gw = NoIP
                      /\ adds = <<>>
                      /\ neigh4' = neigh4
                 ELSE IF SameMac(neigh4, nh) = {} /\ c.route.Gw # NoIP
                 THEN LET n == [LinkIndex |-> Neigh6[nh].LinkIndex,
                                IP |-> "169.254.0.1",
                                HardwareAddr |-> Neigh6[nh].HardwareAddr,
                                State |-> "NUD_PERMANENT"]
                      IN  /\ Len(adds) = 1
                          /\ adds[1].neigh = n
                          /\ neigh4' = IF adds[1].failed THEN neigh4
                                       ELSE Append(neigh4, n)
                          /\ c.route.LinkIndex = n.LinkIndex
                          /\ c.route.Gw = "169.254.0.1"
                          /\ c.route.Flags = FLAG_ONLINK
                 ELSE TRUE
        ELSE TRUE
      ]_vars

\* the neighbor 169.254.0.1 has been installed for fe80::1 and the route
\* through it is in the kernel, flagged ONLINK
C13_Witness ==
    /\ Len(lastBatch) = 1
    /\ lastBatch[1].nexthop = "fe80::1"
    /\ Len(lastOps) = 2
    /\ lastOps[1].call = "NeighAdd"
    /\ ~lastOps[1].failed
    /\ lastOps[2].call = "RouteReplace"
    /\ lastOps[2].route.Gw = "169.254.0.1"
    /\ lastOps[2].route.Flags = FLAG_ONLINK
    /\ \E i \in 1..Len(neigh4) : neigh4[i].IP = "169.254.0.1"
    /\ lastBatch[1].nlri \in DOMAIN routes
    /\ routes[lastBatch[1].nlri] = lastOps[2].route

\* Serve is in its select loop, or in a call made from it
InLoop == dpPc \in {"loop", "addpath"}

\* Serve has left its retry loop and has completed the setup of lo
PastStartup == dpPc \in {"advsend", "sleep", "loop", "addpath"}

\* C14: the startup of Serve completes with the router id /32 on lo: the
\* step that completes the setup of lo calls AddrAdd exactly when the
\* address is not on lo and not when it is; in every other step the address
\* calls made are unchanged (but for an AddrAdd that fails and ends Serve);
\* no call is ever a removal, and from the completed setup on (while the
\* path is queued, during the sleep, in the select loop) the address is on
\* lo.
C14_RouterIdOnLoopback ==
    [][ /\ IF dpPc = "startup" /\ dpPc' = "advsend"
           THEN /\ loAddr'
                /\ addrCalls' = IF loAddr THEN addrCalls
                                ELSE Append(addrCalls, "AddrAdd")
           ELSE /\ loAddr' = loAddr
                /\ IF addrCalls' = addrCalls THEN TRUE
                   ELSE /\ ~loAddr
                        /\ addrCalls' = Append(addrCalls, "AddrAdd")
                        /\ dpPc = "startup"
                        /\ dpPc' = "returned"
        /\ \A i \in 1..Len(addrCalls') : addrCalls'[i] = "AddrAdd"
        /\ IF PastStartup' THEN loAddr' /\ routerId' = RouterIdCfg ELSE TRUE
      ]_vars

\* the startup has completed on a host whose lo had the address: no address
\* call was made
C14_Witness ==
    /\ InLoop
    /\ loAddr
    /\ addrCalls = <<>>
    /\ routerId = RouterIdCfg

\* C15: while the router id and the AS of the dataplane's configuration
\* are not both set, Serve stays in its retry loop: no address call and no
\* route or neighbor change has been made, monitorBest is not started, no
\* add/delete call of the supervisor has been accepted (they all wait),
\* nothing is queued for advertisement, and the retry is enabled.
C15_StartupGated ==
    (dataplane = "netlink" /\ ~bgpReady) =>
        /\ dpPc = "startup"
        /\ addrCalls = <<>>
        /\ routes = << >>
        /\ neigh4 = <<>>
        /\ monPc = "off"
        /\ advPathCh = <<>>
        /\ rpc = <<>>
        /\ vnMap = << >>
        /\ detached = << >>
        /\ pending = Requests(d[1].VirtualNetworkList, <<>>)
        /\ ~crashed => ENABLED (\E clientOk \in BOOLEAN : ServeRetry(clientOk))

\* the dataplane was created from a configuration without router id, and
\* the supervisor waits with its first add call
C15_Witness ==
    /\ dataplane = "netlink"
    /\ ~bgpReady
    /\ ~crashed
    /\ dpPc = "startup"
    /\ Len(pending) = 2
    /\ pending[1].op = "add"

\* C16: the end of a worker's Serve (with an error, or normally after
\* Stop) does not end the Serve loop of the dataplane: Serve has never
\* returned because the tomb d.t is dying, which only the return of a
\* worker's Serve brings about.
C16_WorkerEndIsolated == ~(dpPc = "returned" /\ tombDying)

\* C17: Serve stays in its loop after every event, whatever the outcome: a
\* modRib call, failed or not, takes its batch from modRibCh and leaves the
\* rest of both queues in place with Serve back in the select; so does the
\* return of AddPath, with an error or not; no step ends the loop.
C17_EventErrorIsolated ==
    [][ /\ IF nApplied' = nApplied + 1
           THEN /\ dpPc' = "loop"
                /\ modRibCh' = Tail(modRibCh)
                /\ advPathCh' = advPathCh
           ELSE TRUE
        /\ IF rpc # <<>> /\ rpc' = <<>>
           THEN /\ dpPc' = "loop"
                /\ modRibCh' = modRibCh
                /\ advPathCh' = advPathCh
           ELSE TRUE
        /\ IF InLoop THEN InLoop' /\ ~crashed' ELSE TRUE
      ]_vars

\* the RouteDel of the first batch failed, the router id advertisement has
\* returned, and the route of the second batch is in the kernel
C17_Witness ==
    /\ dpPc = "loop"
    /\ kfail
    /\ nApplied = 2
    /\ advPathCh = <<>>
    /\ rpc = <<>>
    /\ Len(lastBatch) = 1
    /\ IsIPv4(lastBatch[1].nexthop)
    /\ Len(lastOps) = 1
    /\ lastOps[1].call = "RouteReplace"
    /\ DOMAIN routes = {lastBatch[1].nlri}
    /\ routes[lastBatch[1].nlri] = lastOps[1].route

\* C18: log.Fatal for an invalid configuration file ends the process only
\* at startup, before the first snapshot has been received; on a reload
\* the process keeps running.
C18_ReloadErrorNotFatal == fatal => nsnap = 0

\* C19: Serve does not return from its loop while a worker it started is
\* still running: when it has returned because d.t is dying, no worker's
\* Serve is running.
C19_ReturnsAfterWorkers == (dpPc = "returned" /\ tombDying) => Alive = 0

\* C20: every AddPath call Serve waits in carries a deadline.
C20_AddPathHasDeadline ==
    \A i \in 1..Len(rpc) :
        rpc[i].method = "AddPath" => rpc[i].deadline # "none"

\* C30: for a batch of one active IPv4-unicast path, modRib writes no route
\* with an absent gateway: when the resolution of the path's nexthop yields
\* no nexthop (an IPv6 nexthop without neighbor entry, or a neighbor listing
\* that failed), no RouteReplace is called.
C30_NoRouteWithoutNexthop ==
    ( /\ Len(lastBatch) = 1
      /\ lastBatch[1] # NilPath
      /\ lastBatch[1].family = "ipv4-unicast"
      /\ ~lastBatch[1].IsWithdraw ) =>
        \A k \in 1..Len(lastOps) :
            lastOps[k].call = "RouteReplace" => lastOps[k].route.Gw # NoIP

\* the gateway gw of a route can come from the path p: it is p's IPv4
\* nexthop, or p's nexthop is not IPv4 and was resolved through the
\* neighbor tables
DerivedFrom(gw, p) ==
    IF IsIPv4(p.nexthop) THEN gw = p.nexthop ELSE TRUE

\* C28: every route modRib hands to the kernel for destination prefix P has
\* its gateways derived only from paths of the batch whose NLRI is P, also
\* when the batch comes from an event that carries multipath lists of
\* several destinations.
C28_GatewaysOfOwnPrefix ==
    \A k \in 1..Len(RouteCallsOf(lastOps)) :
        LET c == RouteCallsOf(lastOps)[k]
        IN  \A gw \in Gateways(c.route) \ {NoIP} :
                \E i \in 1..Len(lastBatch) :
                    /\ lastBatch[i].nlri = c.route.Dst
                    /\ DerivedFrom(gw, lastBatch[i])

\* C27: the supervisor invokes no AddVirtualNetwork / DeleteVirtualNetwork
\* on a dataplane that does not exist: while no dataplane engine has been
\* created (the snapshot's type is not "netlink"), no call of a snapshot's
\* add/delete loops has been invoked (the invocation on the nil interface
\* is the panic of SupCallNil).
C27_NoCallOnNilDataplane ==
    ~(dataplane = "nil" /\ pending # <<>> /\ crashed)

\* C26: every delete request Serve takes from delVnCh names an RD that is
\* in vnMap at that moment (so vn.Stop() is never called on a nil worker),
\* for every sequence of snapshots, also when a list repeats an RD.
C26_DeleteNamesRegisteredRD ==
    [][ IF pending # <<>> /\ pending' = Tail(pending)
        THEN IF Head(pending).op = "del"
             THEN Head(pending).vn.RD \in DOMAIN vnMap
             ELSE TRUE
        ELSE TRUE
      ]_vars

\* C25: every AddVirtualNetwork / DeleteVirtualNetwork call of the
\* supervisor is eventually accepted by Serve.  Stated on the state a run
\* cannot leave: the supervisor never waits with a call on addVnCh /
\* delVnCh once Serve has returned, since nothing receives from the
\* channels after that and the call would wait for ever.
C25_CallNeverWaitsOnReturnedServe ==
    ~(pending # <<>> /\ ~crashed /\ dpPc = "returned")

(***************************************************************************)
(* The start of the process together with the global RIB synchronizer:     *)
(* the snapshots have no virtual networks, and the watch delivers events   *)
(* once monitorBest has been started.                                      *)
(***************************************************************************)
NextStart ==
    \/ \E c \in DataplaneConfig, g \in GlobalConfig :
         /\ c.VirtualNetworkList = <<>>
         /\ RecvConfig(c, g)
    \/ ReadConfigFatal
    \/ \E clientOk \in BOOLEAN : ServeRetry(clientOk)
    \/ \E call \in StartupCalls : ServeStartupFail(call)
    \/ ServeStartupOk
    \/ ServeSendRouterId
    \/ ServeGoMonitorBest
    \/ ServeAdvPath
    \/ \E err \in BOOLEAN : AddPathReturns(err)
    \/ NextRibUpTo(MaxStartEvents)

SpecStart == InitBoot /\ [][NextStart]_vars

\* C29: the router id /32 is on lo before the watch is subscribed and before
\* any route is written: the step that starts monitorBest is taken after
\* the sleep, with the address on lo and the kernel tables untouched, and
\* monitorBest runs or a kernel call has been made only with the address on
\* lo.  The router id /32 is advertised exactly once: only the send that
\* follows the setup of lo queues a path, it queues the router id path
\* (nexthop 0.0.0.0) once, with the address on lo and monitorBest not
\* started; no step of the startup is entered a second time, and the one
\* AddPath call made for the queued path names the global table and no VRF.
C29_StartupOrder ==
    [][ /\ IF dpPc = "advsend" /\ dpPc' = "sleep"
           THEN /\ loAddr
                /\ monPc = "off"
                /\ monPc' = "off"
                /\ advPathCh = <<>>
                /\ advPathCh' = << RouterIdPath >>
           ELSE Len(advPathCh') <= Len(advPathCh)
        /\ IF monPc = "off" /\ monPc' # "off"
           THEN /\ dpPc = "sleep"
                /\ loAddr
                /\ nApplied = 0
                /\ routes = << >>
                /\ neigh4 = <<>>
           ELSE TRUE
        /\ IF dpPc' = "startup" THEN dpPc \in {"none", "startup"} ELSE TRUE
        /\ IF dpPc' = "advsend" THEN dpPc \in {"startup", "advsend"} ELSE TRUE
        /\ IF dpPc' = "sleep" THEN dpPc \in {"advsend", "sleep"} ELSE TRUE
        /\ IF monPc' # "off" \/ nApplied' > 0 \/ routes' # << >>
           THEN loAddr' /\ routerId' = RouterIdCfg
           ELSE TRUE
        /\ IF rpc = <<>> /\ rpc' # <<>>
           THEN /\ advPathCh # <<>>
                /\ advPathCh' = Tail(advPathCh)
                /\ Len(rpc') = 1
                /\ rpc'[1].method = "AddPath"
                /\ rpc'[1].path = Head(advPathCh)
                /\ rpc'[1].path.nlri = "10.0.0.1/32"
                /\ rpc'[1].path.nexthop = "0.0.0.0"
                /\ rpc'[1].TableType = "GLOBAL"
                /\ rpc'[1].VrfId = ""
           ELSE TRUE
      ]_vars

\* the router id has been advertised into the global table, the call has
\* returned, nothing more is queued, and a route of the watch is in the
\* kernel
C29_Witness ==
    /\ dpPc = "loop"
    /\ loAddr
    /\ addrCalls = << "AddrAdd" >>
    /\ advPathCh = <<>>
    /\ rpc = <<>>
    /\ monPc = "recv"
    /\ nApplied >= 1
    /\ routes # << >>

(***************************************************************************)
(* The configuration reader (config.ReadConfigfileServe) and main's loop   *)
(* with their three unbuffered channels, and SIGHUP.  reloadCh is a        *)
(* rendezvous of main (before its loop, or in its SIGHUP case) with the    *)
(* reader waiting in <-reloadCh; bgpConfigCh and configCh are rendezvous   *)
(* of the reader with main's select.  The snapshots have no virtual        *)
(* networks; a dataplane they create runs its startup beside the two.      *)
(***************************************************************************)
\* SIGHUPs sent to the process in one run
MaxSighup == 2

\* make(chan os.Signal, 1)
SigChCap == 1

\* reloadCh <- true (main) meets <-reloadCh (reader)
Reload ==
    /\ ~crashed
    /\ supPc \in {"start", "reload"}
    /\ rdPc = "wait"
    /\ supPc' = "select"
    /\ rdPc' = "read"
    /\ UNCHANGED << sigCh, nSig, cBgp, fileBgp >>
    /\ UNCHANGED << cfgVars, startVars, ribVars, vnVars >>

\* the reader has read and unmarshalled the file: it sends the BGP part
\* when the BGP global section of the file is not empty, then the whole
\* configuration
ReaderReads(hasBgp) ==
    /\ ~crashed
    /\ rdPc = "read"
    /\ fileBgp' = hasBgp
    /\ rdPc' = IF hasBgp THEN "sendBgp" ELSE "sendCfg"
    /\ UNCHANGED << supPc, sigCh, nSig, cBgp >>
    /\ UNCHANGED << cfgVars, startVars, ribVars, vnVars >>

\* the file cannot be read or unmarshalled, or its BGP part is
\* inconsistent: log.Fatal ends the process, in every iteration of the
\* reader's loop
ReaderFatal ==
    /\ ~crashed
    /\ rdPc = "read"
    /\ crashed' = TRUE
    /\ fatal' = TRUE
    /\ UNCHANGED << nsnap, d, dataplane, pending, dpPc, bgpGlobal, vnMap,
                    detached, tombDying, tombDead, lastSame >>
    /\ UNCHANGED << rdVars, startVars, ribVars, vnVars >>

\* main: case newConfig := <-bgpConfigCh, in a process that configures its
\* own BGP speaker (no --remote).  The reader's send is over and it goes
\* on to configCh <- c.  For the first BGP configuration (c == nil) main
\* sets c and applies it to the speaker: when a call fails (StartBgp,
\* EnableZebra, AddRpki, AddBmp, AddVrf, EnableMrt ...) or the configuration
\* has a collector url, log.Fatal ends the process.  For a later one
\* (c != nil) errors are only logged.
SupRecvBgp(ok) ==
    /\ ~crashed
    /\ supPc = "select"
    /\ pending = <<>>
    /\ rdPc = "sendBgp"
    /\ rdPc' = "sendCfg"
    /\ cBgp' = "set"
    /\ crashed' = (cBgp = "nil" /\ ~ok)
    /\ fatal' = (cBgp = "nil" /\ ~ok)
    /\ UNCHANGED << supPc, sigCh, nSig, fileBgp >>
    /\ UNCHANGED << nsnap, d, dataplane, pending, dpPc, bgpGlobal, vnMap,
                    detached, tombDying, tombDead, lastSame >>
    /\ UNCHANGED << startVars, ribVars, vnVars >>

\* main: case newConfig := <-configCh; the reader is back at <-reloadCh.
\* A file whose BGP global section is empty has neither router id nor AS;
\* the section is read only by a dataplane created in this step.
SupRecvConfig(newConfig, global) ==
    /\ supPc = "select"
    /\ rdPc = "sendCfg"
    /\ IF fileBgp THEN TRUE ELSE global = NoGlobal
    /\ ConfigCase(newConfig,
                  IF dataplane = "nil" /\ newConfig.Type = "netlink"
                  THEN global ELSE ReadyGlobal)
    /\ rdPc' = "wait"
    /\ fileBgp' = FALSE
    /\ UNCHANGED << supPc, sigCh, nSig, cBgp, vnVars >>

\* a SIGHUP is sent to the process: os/signal puts it in sigCh, or drops it
\* when sigCh is full
Sighup ==
    /\ ~crashed
    /\ nSig < MaxSighup
    /\ nSig' = nSig + 1
    /\ sigCh' = IF sigCh < SigChCap THEN sigCh + 1 ELSE sigCh
    /\ UNCHANGED << rdPc, supPc, cBgp, fileBgp >>
    /\ UNCHANGED << cfgVars, startVars, ribVars, vnVars >>

\* main: case sig := <-sigCh, SIGHUP: main goes on to reloadCh <- true
SupRecvSig ==
    /\ ~crashed
    /\ supPc = "select"
    /\ pending = <<>>
    /\ sigCh > 0
    /\ sigCh' = sigCh - 1
    /\ supPc' = "reload"
    /\ UNCHANGED << rdPc, nSig, cBgp, fileBgp >>
    /\ UNCHANGED << cfgVars, startVars, ribVars, vnVars >>

NextReload ==
    \/ Reload
    \/ \E hasBgp \in BOOLEAN : ReaderReads(hasBgp)
    \/ ReaderFatal
    \/ \E ok \in BOOLEAN : SupRecvBgp(ok)
    \/ \E c \in DataplaneConfig, g \in GlobalConfig :
         /\ c.VirtualNetworkList = <<>>
         /\ SupRecvConfig(c, g)
    \/ Sighup
    \/ SupRecvSig
    \/ \E clientOk \in BOOLEAN : ServeRetry(clientOk)
    \/ \E call \in StartupCalls : ServeStartupFail(call)
    \/ ServeStartupOk
    \/ ServeSendRouterId
    \/ ServeGoMonitorBest
    \/ ServeAdvPath
    \/ \E err \in BOOLEAN : AddPathReturns(err)

SpecReload == Init /\ [][NextReload]_vars

\* C24: main and the configuration reader never block on each other: main
\* never waits in reloadCh <- true (its SIGHUP case) while the reader waits
\* in bgpConfigCh <- or configCh <- for main's select.  In such a state
\* neither send is ever received, so the SIGHUP is never turned into a
\* re-read and no further snapshot reaches the supervisor.
C24_NoMutualBlock ==
    ~(~crashed /\ supPc = "reload" /\ rdPc \in {"sendBgp", "sendCfg"})

(***************************************************************************)
(* Snapshots that add, remove and add again the virtual network of one RD, *)
(* with the dataplane and its workers.                                     *)
(***************************************************************************)
\* configuration snapshots of one run of SpecRestart
MaxRestartSnapshots == 3

RestartConfigs ==
    { c \in DataplaneConfig :
        /\ c.Type = "netlink"
        /\ Len(c.VirtualNetworkList) <= 1
        /\ RDsOf(c.VirtualNetworkList) \subseteq {"65000:10"} }

NextRestart ==
    \/ \E c \in RestartConfigs :
         /\ nsnap < MaxRestartSnapshots
         /\ ConfigCase(c, ReadyGlobal)
         /\ UNCHANGED << rdVars, vnVars >>
    \/ ServeStartupOk
    \/ ServeSendRouterId
    \/ ServeGoMonitorBest
    \/ ServeDying
    \/ ServeAdvPath
    \/ \E err \in BOOLEAN : AddPathReturns(err)
    \/ ServeAddVn
    \/ ServeDelVn
    \/ \E rd \in DOMAIN vnMap : WorkerFails(rd)
    \/ \E w \in DOMAIN detached : WorkerServeEnds(w)

SpecRestart == Init /\ [][NextRestart]_vars

\* C22: a worker removed by a configuration change has terminated before a
\* worker of the same RD is started again: when Serve accepts an add
\* request, no worker of that RD that was stopped is still running.
C22_StoppedBeforeRestart ==
    [][ IF pending # <<>> /\ pending' = Tail(pending)
        THEN IF Head(pending).op = "add"
             THEN \A w \in DOMAIN detached :
                      ~(w.stopped /\ w.config.RD = Head(pending).vn.RD)
             ELSE TRUE
        ELSE TRUE
      ]_vars

(***************************************************************************)
(* The shutdown of the dataplane: Serve returns when its tomb is dying     *)
(* (the Serve of a worker has returned with an error) or when its startup  *)
(* fails, while monitorBest's goroutine and the watch go on.  A goroutine  *)
(* that can take a step takes it eventually, and the BGP speaker answers   *)
(* the AddPath call; snapshots, watch events and the failure of a worker   *)
(* are inputs and need not happen.                                         *)
(***************************************************************************)
NextDown ==
    \/ \E c \in RestartConfigs : RecvConfig(c, ReadyGlobal)
    \/ \E call \in StartupCalls : ServeStartupFail(call)
    \/ ServeStartupOk
    \/ ServeSendRouterId
    \/ ServeGoMonitorBest
    \/ ServeDying
    \/ ServeAdvPath
    \/ \E err \in BOOLEAN : AddPathReturns(err)
    \/ ServeAddVn
    \/ ServeDelVn
    \/ \E rd \in DOMAIN vnMap : WorkerFails(rd)
    \/ \E w \in DOMAIN detached : WorkerServeEnds(w)
    \/ NextRibUpTo(MaxStartEvents)

ServeModRibStep ==
    /\ modRibCh # <<>>
    /\ \E ok \in BOOLEAN :
         \E outs \in [1..Len(Head(modRibCh).paths) -> KernelOutcomes] :
           ServeModRib(outs, ok)

SpecDown ==
    /\ Init
    /\ [][NextDown]_vars
    /\ WF_vars(ServeStartupOk \/ \E call \in StartupCalls : ServeStartupFail(call))
    /\ WF_vars(ServeSendRouterId)
    /\ WF_vars(ServeGoMonitorBest)
    /\ WF_vars(ServeDying)
    /\ WF_vars(ServeAdvPath)
    /\ WF_vars(\E err \in BOOLEAN : AddPathReturns(err))
    /\ WF_vars(ServeAddVn)
    /\ WF_vars(ServeDelVn)
    /\ WF_vars(ServeModRibStep)
    /\ WF_vars(MonitorSend)
    /\ WF_vars(\E w \in DOMAIN detached : WorkerServeEnds(w))

\* monitorBest's goroutine runs: it waits for an event of the watch or is
\* about to send a batch, and the watch is subscribed
MonitorRuns == monPc \in {"recv", "decide"}

\* C21: once Serve has returned (the dataplane is shut down), the watch
\* reader is cancelled: eventually monitorBest's goroutine no longer runs
\* (it reads no event, sends nothing to modRibCh, and w.Stop has been
\* called).
C21_WatchReaderStops == (dpPc = "returned") ~> ~MonitorRuns

(***************************************************************************)
(* Virtual network workers and EVPN MAC Advertisement routes.  Each worker *)
(* reads the best paths of the watch in the order delivered and programs   *)
(* the bridge FDB of its VXLAN device.  An EVPN path carries the RD, the   *)
(* Ethernet tag and the MAC of its NLRI, the nexthop (the remote VTEP),    *)
(* its origin ("peer", or "self" for a path of the local speaker), the VNI *)
(* of its VXLAN extended community (NoVni when it has none) and the        *)
(* withdraw flag.                                                          *)
(***************************************************************************)
\* EVPN best paths the watch delivers in one run
MaxEvpn == 3

NoVni == 0

EvpnPaths ==
    { [rd |-> "65000:10", etag |-> 10, mac |-> "aa:aa:aa:aa:aa:02",
       nexthop |-> "192.168.0.2", source |-> "peer", vni |-> 10,
       IsWithdraw |-> FALSE],
      [rd |-> "65000:10", etag |-> 10, mac |-> "aa:aa:aa:aa:aa:02",
       nexthop |-> "192.168.0.2", source |-> "peer", vni |-> 10,
       IsWithdraw |-> TRUE],
      [rd |-> "65000:20", etag |-> 20, mac |-> "aa:aa:aa:aa:aa:02",
       nexthop |-> "192.168.0.2", source |-> "peer", vni |-> 20,
       IsWithdraw |-> FALSE],
      [rd |-> "65000:10", etag |-> 10, mac |-> "aa:aa:aa:aa:aa:01",
       nexthop |-> "192.168.0.1", source |-> "self", vni |-> 10,
       IsWithdraw |-> FALSE],
      [rd |-> "65000:10", etag |-> 99, mac |-> "aa:aa:aa:aa:aa:03",
       nexthop |-> "192.168.0.3", source |-> "peer", vni |-> 10,
       IsWithdraw |-> FALSE],
      [rd |-> "65000:20", etag |-> 20, mac |-> "aa:aa:aa:aa:aa:03",
       nexthop |-> "192.168.0.3", source |-> "peer", vni |-> NoVni,
       IsWithdraw |-> FALSE] }

\* the Ethernet tag of a configured virtual network (VNI stands for every
\* field other than RD)
Etag(v) == v.VNI

\* the VXLAN device of a virtual network: its name is derived from the VNI
VxlanDev(v) == v.VNI

\* variant: self-originated paths are not filtered
evpn_macip_to_fdb_no_self_filter(path, vn) ==
    IF \/ path.rd # vn.RD
       \/ path.etag # Etag(vn)
       \/ path.vni = NoVni
    THEN <<>>
    ELSE << [dev |-> VxlanDev(vn), mac |-> path.mac, dst |-> path.nexthop,
             vni |-> path.vni, rd |-> path.rd] >>

\* Path Translator: the FDB entry of a MAC Advertisement path for a worker,
\* <<>> when the path is ignored: it is self-originated, its RD or Ethernet
\* tag is not the worker's, or it has no VXLAN VNI.  The field rd is
\* history: the RD of the path that caused the entry.
evpn_macip_to_fdb(path, vn) ==
    IF \/ path.source = "self"
       \/ path.rd # vn.RD
       \/ path.etag # Etag(vn)
       \/ path.vni = NoVni
    THEN <<>>
    ELSE << [dev |-> VxlanDev(vn), mac |-> path.mac, dst |-> path.nexthop,
             vni |-> path.vni, rd |-> path.rd] >>

\* Kernel Adapter: installing an entry that exists leaves one entry;
\* removing an entry that does not exist changes nothing
FdbInstall(f, e) == IF e \in DOMAIN f THEN f ELSE BagAdd(f, e)

FdbRemove(f, e) == [ x \in (DOMAIN f) \ {e} |-> f[x] ]

\* the watch delivers an EVPN best path to the workers
EvpnBestPath(path) ==
    /\ ~crashed
    /\ Len(evpnLog) < MaxEvpn
    /\ evpnLog' = Append(evpnLog, path)
    /\ UNCHANGED << vnSeen, fdb >>
    /\ UNCHANGED << cfgVars, startVars, ribVars, rdVars >>

\* the worker of rd, in Running, takes its next best path: install on an
\* active path, remove on a withdraw, nothing when the path is ignored
VnBestPath(rd) ==
    /\ ~crashed
    /\ rd \in DOMAIN vnMap
    /\ ~vnMap[rd].ended
    /\ vnSeen[rd] < Len(evpnLog)
    /\ LET path == evpnLog[vnSeen[rd] + 1]
           e == evpn_macip_to_fdb(path, vnMap[rd].config)
       IN  fdb' = IF e = <<>> THEN fdb
                  ELSE IF path.IsWithdraw THEN FdbRemove(fdb, e[1])
                  ELSE FdbInstall(fdb, e[1])
    /\ vnSeen' = [vnSeen EXCEPT ![rd] = @ + 1]
    /\ UNCHANGED evpnLog
    /\ UNCHANGED << cfgVars, startVars, ribVars, rdVars >>

\* the dataplane runs the workers of two virtual networks
FdbNetworks ==
    << [RD |-> "65000:10", VNI |-> 10], [RD |-> "65000:20", VNI |-> 20] >>

InitFdb ==
    /\ nsnap = 1
    /\ d = << [Type |-> "netlink", VirtualNetworkList |-> FdbNetworks] >>
    /\ dataplane = "netlink"
    /\ pending = <<>>
    /\ crashed = FALSE
    /\ dpPc = "loop"
    /\ bgpGlobal = ReadyGlobal
    /\ vnMap = [ rd \in RDsOf(FdbNetworks) |->
                   NewVirtualNetwork(
                       FdbNetworks[CHOOSE i \in 1..Len(FdbNetworks) :
                                       FdbNetworks[i].RD = rd]) ]
    /\ detached = << >>
    /\ tombDying = FALSE
    /\ tombDead = FALSE
    /\ lastSame = FALSE
    /\ fatal = FALSE
    /\ routerId = RouterIdCfg
    /\ localAS = LocalAsCfg
    /\ loAddr = TRUE
    /\ advPathCh = <<>>
    /\ addrCalls = << "AddrAdd" >>
    /\ rpc = <<>>
    /\ monPc = "recv"
    /\ monPaths = <<>>
    /\ exitCurrentLoop = FALSE
    /\ modRibCh = <<>>
    /\ routes = << >>
    /\ neigh4 = <<>>
    /\ nDelivered = 0
    /\ nForwarded = 0
    /\ nDropped = 0
    /\ lastVerdict = "none"
    /\ nApplied = 0
    /\ lastBatch = <<>>
    /\ lastOps = <<>>
    /\ best = << >>
    /\ kfail = FALSE
    /\ rdPc = "wait"
    /\ supPc = "select"
    /\ sigCh = 0
    /\ nSig = 0
    /\ cBgp = "set"
    /\ fileBgp = FALSE
    /\ evpnLog = <<>>
    /\ vnSeen = [ rd \in RDsOf(FdbNetworks) |-> 0 ]
    /\ fdb = << >>

NextFdb ==
    \/ \E path \in EvpnPaths : EvpnBestPath(path)
    \/ \E rd \in DOMAIN vnMap : VnBestPath(rd)

SpecFdb == InitFdb /\ [][NextFdb]_vars

\* every registered worker has processed every delivered path
Converged == \A rd \in DOMAIN vnMap : vnSeen[rd] = Len(evpnLog)

\* the path delivered i-th is an active path of a peer that no later path
\* withdraws
InForce(i) ==
    /\ evpnLog[i].source = "peer"
    /\ ~evpnLog[i].IsWithdraw
    /\ \A j \in (i + 1)..Len(evpnLog) :
           ~( /\ evpnLog[j].IsWithdraw
              /\ evpnLog[j].rd = evpnLog[i].rd
              /\ evpnLog[j].etag = evpnLog[i].etag
              /\ evpnLog[j].mac = evpnLog[i].mac
              /\ evpnLog[j].nexthop = evpnLog[i].nexthop )

\* the FDB entries of device dev that map mac to dst
FdbCount(dev, mac, dst) ==
    BagSize([ e \in { x \in DOMAIN fdb :
                        x.dev = dev /\ x.mac = mac /\ x.dst = dst }
                |-> fdb[e] ])

\* every FDB entry is on the device of the worker whose RD is the RD of the
\* path that caused it
OwnRDOnly ==
    \A e \in DOMAIN fdb :
        \E rd \in DOMAIN vnMap :
            VxlanDev(vnMap[rd].config) = e.dev /\ e.rd = rd

\* C23 as stated: after convergence, for every non-self-originated MAC
\* Advertisement best path (rd, etag, mac, vtep) received (and not
\* withdrawn) the FDB of the worker owning rd has exactly one entry mapping
\* mac to vtep on the worker's VXLAN device, and no worker of another RD
\* holds an entry caused by the path.
C23_EveryPathHasFdbEntry ==
    Converged =>
        /\ \A i \in 1..Len(evpnLog) :
               (InForce(i) /\ evpnLog[i].rd \in DOMAIN vnMap) =>
                   FdbCount(VxlanDev(vnMap[evpnLog[i].rd].config),
                            evpnLog[i].mac, evpnLog[i].nexthop) = 1
        /\ OwnRDOnly

\* the path delivered i-th is one the worker vn does not ignore
Targets(i, vn) ==
    /\ evpnLog[i].rd = vn.RD
    /\ evpnLog[i].etag = Etag(vn)
    /\ evpnLog[i].vni # NoVni

\* C23, amended: after convergence, for every non-self-originated MAC
\* Advertisement best path (rd, etag, mac, vtep) received (and not
\* withdrawn) that carries a VXLAN VNI and whose Ethernet tag is that of
\* the worker owning rd, the FDB has exactly one entry mapping mac to vtep
\* on that worker's VXLAN device; no worker of another RD holds an entry
\* caused by the path; and the FDB holds no other entry: a path that is
\* self-originated, has another Ethernet tag or no VNI causes none.
C23_TargetedPathHasFdbEntry ==
    Converged =>
        /\ \A i \in 1..Len(evpnLog) :
               ( /\ InForce(i)
                 /\ evpnLog[i].rd \in DOMAIN vnMap
                 /\ Targets(i, vnMap[evpnLog[i].rd].config) ) =>
                   FdbCount(VxlanDev(vnMap[evpnLog[i].rd].config),
                            evpnLog[i].mac, evpnLog[i].nexthop) = 1
        /\ OwnRDOnly
        /\ \A e \in DOMAIN fdb :
               \E i \in 1..Len(evpnLog) :
                   /\ InForce(i)
                   /\ Targets(i, vnMap[e.rd].config)
                   /\ evpnLog[i].mac = e.mac
                   /\ evpnLog[i].nexthop = e.dst

\* both workers have processed three paths: the same MAC advertised in both
\* RDs, each with an entry on its own device, and a path without VNI that
\* left no entry
C23_Witness ==
    /\ Converged
    /\ Len(evpnLog) = 3
    /\ \E i \in 1..3 : evpnLog[i].vni = NoVni
    /\ FdbCount(10, "aa:aa:aa:aa:aa:02", "192.168.0.2") = 1
    /\ FdbCount(20, "aa:aa:aa:aa:aa:02", "192.168.0.2") = 1
    /\ BagSize(fdb) = 2

====
